---------------------------- MODULE Spec2Model ----------------------------
(***************************************************************************)
(* A model of backup-home: the exclusion matchers, the archive builders   *)
(* (sequential tar/zip walkers and the zip worker pool), and the          *)
(* create-backup / upload / cleanup sequence of the command.              *)
(*                                                                         *)
(* Paths and patterns are strings, handled character by character as the  *)
(* Go code does (strings.Split, HasPrefix, HasSuffix, filepath.Match).     *)
(***************************************************************************)
EXTENDS Integers, Sequences, FiniteSets, TLC

VARIABLES
  \* ---- exclusion matcher applied to one (pattern, path) input
  mKind,        \* which exclusion check is applied
  mGoos,        \* runtime.GOOS
  mPattern,     \* one exclude pattern
  mPath,        \* the entry's path relative to the source root (slash form)
  mDone,        \* the check has run
  mResult,      \* its verdict
  mRest,        \* the exclude patterns that follow mPattern in the list
  mErr,         \* the check made the walk function return an error
  \* ---- one run of an archive builder over a source tree
  variant,          \* which builder runs
  excludePatterns,  \* the exclude patterns in force
  tree,             \* the source tree: path -> [type, size, target]
  todo,             \* entries filepath.Walk has still to hand to the callback
  visited,          \* entries the callback was called for
  opened,           \* files the builder opened (os.Open succeeded or failed)
  archive,          \* entries written to the tar or zip writer, in order
  faults,           \* the I/O errors that occurred, as [path, kind]
  walkState,        \* "walking", "ok" (returned nil) or "error" (returned an error)
  \* ---- the command: CreateBackup, upload, cleanup, over successive runs
  opts,             \* the flags of the current run
  sourceExists,     \* os.Stat(source) finds the source directory
  mainPc,           \* where the current run stands
  fileState,        \* the file at the backup path: "absent", "partial", "complete"
  fileOpen,         \* the builder holds the output file open
  writers,          \* the archive and compression writers not yet closed
  archiveErr,       \* the builder's walk returned an error
  backupResult,     \* CreateBackup: "none", "created", "existing" or "err"
  uploadState,      \* "none", "running", "ok" or "failed"
  removed,          \* os.Remove deleted the backup file in this run
  exitState,        \* "none", "ok" or "err": what RunE / PreRunE returned
  runNo,            \* number of the current run
  builderLevel,     \* {} or {the compression level createArchive was called with}
  closeFailed,      \* the deferred closes that returned an error in this run
  fileResult,       \* what the createArchive call that wrote the file at the
                    \* backup path returned: "none" (no file), "running", "err", "nil"
  \* ---- the worker pool of createWindowsArchive ("pool")
  numWorkers,       \* runtime.GOMAXPROCS(0)
  filesChan,        \* buffered channel of files to archive, capacity 2 * numWorkers
  filesClosed,      \* close(filesChan) was called
  errorsChan,       \* buffered channel of errors, capacity numWorkers
  errorsClosed,     \* close(errorsChan) was called
  workers,          \* per worker: pc, the file it holds, its entry, its error
  zipMutex,         \* 0, or the worker that holds the lock
  \* ---- one SSH upload
  uVariant,         \* which implementation runs
  uConfig,          \* SSHConfig: KeyFile, Password, User ("" when not set)
  uKeyFileOk,       \* the configured key file can be read and parsed
  uDefaultKeys,     \* the default key files that exist and can be parsed
  uPlan,            \* the steps still to run, in order
  uAuth,            \* the credentials chosen, in the order they are offered
  uSteps,           \* the steps attempted so far
  uResult,          \* "none", "ok", or the failed step's error
  uRemote,          \* the remote file: "absent", "partial" or "complete"
  uOpen,            \* the connections and files the upload holds open
  \* ---- progressReader (upload progress reporting) ----
  pSource,          \* the bytes of the local file behind pr.reader
  pOffset,          \* how many of them the underlying reader has delivered
  pTotal,           \* pr.total
  pTransferred,     \* pr.transferred
  pStart,           \* pr.startTime
  pNow,             \* the wall clock, in seconds
  pLastReport,      \* pr.lastReport: {} is the zero time, {t} a report at t
  pReports,         \* the Infof lines written so far
  pUnder,           \* the <<n, err>> results of pr.reader.Read so far
  pReturns,         \* the <<n, err>> results Read has returned so far
  pDest,            \* the bytes io.Copy has written to the remote file
  pState,           \* "idle", "copying", "ok" (EOF seen) or "err"
  \* ---- UploadToRclone ----
  rSource,          \* source: the local archive
  rDestination,     \* destination: the rclone remote
  rRequests,        \* the requests handed to librclone.RPC so far
  rStatus,          \* the status codes librclone.RPC returned so far
  rPc,              \* "start", "stat" or "returned"
  rResult           \* "none", "ok" or the error returned

matchVars == <<mKind, mGoos, mPattern, mPath, mDone, mResult, mRest, mErr>>

walkVars == <<variant, excludePatterns, tree, todo, visited, opened, archive,
              faults, walkState>>

mainVars == <<opts, sourceExists, mainPc, fileState, fileOpen, writers, archiveErr,
              backupResult, uploadState, removed, exitState, runNo, builderLevel,
              closeFailed, fileResult>>

poolVars == <<numWorkers, filesChan, filesClosed, errorsChan, errorsClosed, workers,
              zipMutex>>

uploadVars == <<uVariant, uConfig, uKeyFileOk, uDefaultKeys, uPlan, uAuth, uSteps,
                uResult, uRemote, uOpen>>

progressVars == <<pSource, pOffset, pTotal, pTransferred, pStart, pNow, pLastReport,
                  pReports, pUnder, pReturns, pDest, pState>>

rcloneVars == <<rSource, rDestination, rRequests, rStatus, rPc, rResult>>

vars == <<matchVars, walkVars, mainVars, poolVars, uploadVars, progressVars,
          rcloneVars>>

-----------------------------------------------------------------------------
(* Strings *)

CharAt(s, i) == SubSeq(s, i, i)

Rest(s) == SubSeq(s, 2, Len(s))

HasPrefix(s, p) == Len(s) >= Len(p) /\ SubSeq(s, 1, Len(p)) = p

HasSuffix(s, p) == Len(s) >= Len(p) /\ SubSeq(s, Len(s) - Len(p) + 1, Len(s)) = p

Contains(s, sub) ==
  \E i \in 0..(Len(s) - Len(sub)) : SubSeq(s, i + 1, i + Len(sub)) = sub

TrimPrefix(s, p) == IF HasPrefix(s, p) THEN SubSeq(s, Len(p) + 1, Len(s)) ELSE s

TrimSuffix(s, p) == IF HasSuffix(s, p) THEN SubSeq(s, 1, Len(s) - Len(p)) ELSE s

\* strings.LastIndex(s, c) for a one-character c, 1-based; 0 when absent
LastIndex(s, c) ==
  IF \E i \in 1..Len(s) : CharAt(s, i) = c
  THEN CHOOSE i \in 1..Len(s) :
         CharAt(s, i) = c /\ \A j \in (i + 1)..Len(s) : CharAt(s, j) # c
  ELSE 0

\* strings.Index(s, c) for a one-character c, 1-based; 0 when absent
Index(s, c) ==
  IF \E i \in 1..Len(s) : CharAt(s, i) = c
  THEN CHOOSE i \in 1..Len(s) :
         CharAt(s, i) = c /\ \A j \in 1..(i - 1) : CharAt(s, j) # c
  ELSE 0

RECURSIVE Split(_, _)
Split(s, sep) ==
  LET i == Index(s, sep)
  IN IF i = 0 THEN <<s>>
     ELSE <<SubSeq(s, 1, i - 1)>> \o Split(SubSeq(s, i + 1, Len(s)), sep)

RECURSIVE ReplaceChar(_, _, _)
ReplaceChar(s, from, to) ==
  IF s = "" THEN ""
  ELSE (IF CharAt(s, 1) = from THEN to ELSE CharAt(s, 1))
         \o ReplaceChar(Rest(s), from, to)

UpperChars == "ABCDEFGHIJKLMNOPQRSTUVWXYZ"
LowerChars == "abcdefghijklmnopqrstuvwxyz"

LowerChar(c) ==
  LET i == Index(UpperChars, c) IN IF i = 0 THEN c ELSE CharAt(LowerChars, i)

RECURSIVE ToLower(_)
ToLower(s) == IF s = "" THEN "" ELSE LowerChar(CharAt(s, 1)) \o ToLower(Rest(s))

\* os.PathSeparator
Separator(goos) == IF goos = "windows" THEN "\\" ELSE "/"

\* filepath.ToSlash / filepath.FromSlash
ToSlash(goos, s) == ReplaceChar(s, Separator(goos), "/")
FromSlash(goos, s) == ReplaceChar(s, "/", Separator(goos))

-----------------------------------------------------------------------------
(* filepath.Match: shell glob on one string.  '*' matches any run of       *)
(* non-separator characters, '?' one non-separator character; a '[' that  *)
(* is never closed is ErrBadPattern.                                       *)

RECURSIVE Glob(_, _, _)
Glob(sep, p, s) ==
  IF p = "" THEN s = ""
  ELSE LET c == CharAt(p, 1)
       IN IF c = "*"
          THEN \/ Glob(sep, Rest(p), s)
               \/ s # "" /\ CharAt(s, 1) # sep /\ Glob(sep, p, Rest(s))
          ELSE IF c = "?"
          THEN s # "" /\ CharAt(s, 1) # sep /\ Glob(sep, Rest(p), Rest(s))
          ELSE s # "" /\ CharAt(s, 1) = c /\ Glob(sep, Rest(p), Rest(s))

BadPattern(p) == LastIndex(p, "[") > LastIndex(p, "]")

Match(goos, pattern, name) ==
  IF BadPattern(pattern)
  THEN [matched |-> FALSE, err |-> TRUE]
  ELSE [matched |-> Glob(Separator(goos), pattern, name), err |-> FALSE]

-----------------------------------------------------------------------------
(* matchPattern: the segment matcher of the Linux and macOS builders *)

\* the pattern segment is an extension pattern such as "*.sock"
isExtensionPattern(seg) == HasPrefix(seg, "*") /\ Contains(seg, ".")

\* a variant that tests the extension anywhere in the final segment
extensionMatchAnywhere(goos, seg, path) ==
  LET ext == SubSeq(seg, LastIndex(seg, "."), Len(seg))
  IN IF goos = "windows"
     THEN Contains(ToLower(path[Len(path)]), ToLower(ext))
     ELSE Contains(path[Len(path)], ext)

extensionMatch(goos, seg, path) ==
  LET ext == SubSeq(seg, LastIndex(seg, "."), Len(seg))
  IN IF goos = "windows"
     THEN HasSuffix(ToLower(path[Len(path)]), ToLower(ext))
     ELSE HasSuffix(path[Len(path)], ext)

segmentMatch(goos, seg, name) ==
  LET r == IF goos = "windows"
           THEN Match(goos, ToLower(seg), ToLower(name))
           ELSE Match(goos, seg, name)
  IN ~r.err /\ r.matched

RECURSIVE matchPattern(_, _, _)
matchPattern(goos, pattern, path) ==
  IF Len(pattern) = 0 THEN Len(path) = 0
  ELSE IF Len(path) = 0 THEN FALSE
  ELSE IF isExtensionPattern(pattern[1])
       THEN extensionMatch(goos, pattern[1], path)
  ELSE IF pattern[1] = "**"
       THEN \E i \in 0..Len(path) :
              matchPattern(goos, Tail(pattern), SubSeq(path, i + 1, Len(path)))
  ELSE /\ segmentMatch(goos, pattern[1], path[1])
       /\ matchPattern(goos, Tail(pattern), Tail(path))

-----------------------------------------------------------------------------
(* The exclusion check each builder runs on an entry.  relPath is the     *)
(* result of filepath.Rel, in the separators of the platform.             *)

\* createLinuxArchive, and createMacOSArchive with matchPattern
excludedByMatchPattern(goos, relPath, patterns) ==
  LET normalizedPath == "./" \o ToSlash(goos, relPath)
  IN \E k \in 1..Len(patterns) :
       matchPattern(goos, Split(patterns[k], "/"), Split(normalizedPath, "/"))

\* the "**/" branch shared by the older macOS builder and the sequential
\* Windows builder: some segment of the path equals the pattern's name
segmentEquals(pattern, normalizedPath) ==
  LET dirName == TrimSuffix(TrimPrefix(pattern, "./**/"), "/")
      segments == Split(normalizedPath, "/")
  IN \E i \in 1..Len(segments) : segments[i] = dirName

\* createMacOSArchive with the segment loop and filepath.Match
excludedBySegmentLoop(goos, relPath, patterns) ==
  LET normalizedPath == "./" \o ToSlash(goos, relPath)
  IN \E k \in 1..Len(patterns) :
       LET pattern == patterns[k]
       IN IF Contains(pattern, "**/")
          THEN segmentEquals(pattern, normalizedPath)
          ELSE LET r == Match(goos, pattern, normalizedPath)
               IN ~r.err /\ r.matched

\* createWindowsArchive, sequential, with prefix matching
excludedByPrefix(goos, relPath, patterns) ==
  LET normalizedPath == ToSlash(goos, relPath)
  IN \E k \in 1..Len(patterns) :
       LET pattern == ToSlash(goos, patterns[k])
       IN IF Contains(pattern, "**/")
          THEN segmentEquals(pattern, normalizedPath)
          ELSE \/ HasPrefix(normalizedPath, pattern)
               \/ HasPrefix(normalizedPath, "./" \o pattern)
               \/ HasPrefix(normalizedPath, ".\\" \o pattern)

\* isExcluded of the worker-pool Windows builder
isExcluded(goos, path, patterns) ==
  LET normalizedPath == ToSlash(goos, path)
  IN \E k \in 1..Len(patterns) :
       LET normalizedPattern == ToSlash(goos, patterns[k])
       IN \/ HasPrefix(normalizedPath, normalizedPattern)
          \/ Contains(normalizedPath, "/" \o normalizedPattern)
          \/ Match(goos, normalizedPattern, normalizedPath).matched

\* createMacOSArchive, earliest variant: filepath.Match on each pattern
\* in turn; an invalid pattern is returned as an error
RECURSIVE matchOnly(_, _, _)
matchOnly(goos, relPath, patterns) ==
  IF patterns = << >> THEN "included"
  ELSE LET r == Match(goos, Head(patterns), "./" \o relPath)
       IN IF r.err THEN "error"
          ELSE IF r.matched THEN "excluded"
          ELSE matchOnly(goos, relPath, Tail(patterns))

MatcherKinds == {"matchPattern", "segmentLoop", "prefix", "isExcluded"}

Excluded(kind, goos, relPath, patterns) ==
  CASE kind = "matchOnly"    -> matchOnly(goos, relPath, patterns) = "excluded"
    [] kind = "matchPattern" -> excludedByMatchPattern(goos, relPath, patterns)
    [] kind = "segmentLoop"  -> excludedBySegmentLoop(goos, relPath, patterns)
    [] kind = "prefix"       -> excludedByPrefix(goos, relPath, patterns)
    [] kind = "isExcluded"   -> isExcluded(goos, relPath, patterns)

-----------------------------------------------------------------------------
(* Specification SpecMatch: one exclusion check applied to one input *)

GoosValues == {"linux", "darwin", "windows"}

MatchPatterns ==
  { "./**/node_modules", "./**/*.sock", "*.sock", "./.cache", ".cache",
    "./.gnupg/S.*", "./Downloads" }

MatchPaths ==
  { "node_modules", "a/node_modules", "a/b/node_modules", "node_modules/x.txt",
    "a/node_modules/x.txt", "foo.sock", "a/b/foo.sock", "foo.sock.bak",
    "a/foo.sock.bak", "FOO.SOCK", "foo.sock/b.txt", ".cache", ".cache/x/y",
    "a/.cache", ".gnupg/S.gpg-agent", "Downloads/b.txt", "b.txt" }

MatchIdle ==
  /\ mKind = "matchPattern"
  /\ mGoos = "linux"
  /\ mPattern = ""
  /\ mPath = ""
  /\ mDone = TRUE
  /\ mResult = FALSE
  /\ mRest = << >>
  /\ mErr = FALSE

\* the builders whose exclusion check calls filepath.Match on a pattern
MatchingKinds == {"matchPattern", "segmentLoop", "matchOnly"}

\* patterns filepath.Match rejects with ErrBadPattern
MalformedPatterns == { "./[cache", "./.cache/[a-", "./a/[b" }

ListPatterns == MalformedPatterns \cup { "./.cache", "./*.sock" }

ListPaths == { ".cache", ".cache/x", "a", "a/b", "foo.sock", "b.txt" }

\* an exclude list of one or two patterns on a Unix builder
MatchListInit ==
  /\ mKind \in MatchingKinds
  /\ mGoos \in {"linux", "darwin"}
  /\ mPattern \in ListPatterns
  /\ mRest \in {<< >>} \cup { <<q>> : q \in ListPatterns }
  /\ mPath \in ListPaths
  /\ mDone = FALSE
  /\ mResult = FALSE
  /\ mErr = FALSE

MatchInit ==
  /\ mKind \in MatcherKinds
  /\ mGoos \in GoosValues
  /\ mPattern \in MatchPatterns
  /\ mPath \in MatchPaths
  /\ mDone = FALSE
  /\ mResult = FALSE
  /\ mRest = << >>
  /\ mErr = FALSE

\* what the check leaves alone
MatchFrame == UNCHANGED <<walkVars, mainVars, poolVars, uploadVars, progressVars, rcloneVars>>

ApplyMatcher ==
  /\ ~mDone
  /\ mDone' = TRUE
  /\ mResult' = Excluded(mKind, mGoos, FromSlash(mGoos, mPath), <<mPattern>> \o mRest)
  /\ mErr' = ( /\ mKind = "matchOnly"
               /\ matchOnly(mGoos, FromSlash(mGoos, mPath), <<mPattern>> \o mRest) = "error" )
  /\ UNCHANGED <<mKind, mGoos, mPattern, mPath, mRest>>
  /\ MatchFrame


-----------------------------------------------------------------------------
(* Source trees.  A tree maps each path under the source root (slash      *)
(* form, relative) to its lstat result; a file's content is identified    *)
(* with its path and length.                                              *)

Dir == [type |-> "dir", size |-> 0, target |-> ""]
File(n) == [type |-> "file", size |-> n, target |-> ""]
Link(t) == [type |-> "symlink", size |-> 0, target |-> t]

\* the large-file threshold of the sequential Windows builder, 1<<30
LargeFileLimit == 1073741824

FileSizes == {0, 1, LargeFileLimit, LargeFileLimit + 1}

\* every candidate entry, in the order filepath.Walk visits them
\* (depth first, the names of a directory in byte order)
WalkOrder ==
  << ".cache", ".cache/x", "a", "a/node_modules", "a/node_modules/x.txt",
     "a/y.txt", "b.txt", "foo.sock", "link" >>

Range(f) == {f[i] : i \in DOMAIN f}

FullTree(big) ==
  (".cache" :> Dir) @@ (".cache/x" :> File(1)) @@ ("a" :> Dir)
    @@ ("a/node_modules" :> Dir) @@ ("a/node_modules/x.txt" :> File(1))
    @@ ("a/y.txt" :> File(2)) @@ ("b.txt" :> File(big))
    @@ ("foo.sock" :> File(1)) @@ ("link" :> Link("b.txt"))

OptionalEntries == {"a/node_modules", "foo.sock", "link"}

IsUnder(q, p) == HasPrefix(q, p \o "/")

Trees ==
  { [q \in {q \in Range(WalkOrder) :
              \A r \in absent : q # r /\ ~IsUnder(q, r)} |-> FullTree(big)[q]]
      : absent \in SUBSET OptionalEntries, big \in FileSizes }

\* the entries of a tree in walk order
WalkList(t) == SelectSeq(WalkOrder, LAMBDA q : q \in DOMAIN t)

Prune(seq, p) == SelectSeq(seq, LAMBDA q : ~IsUnder(q, p))

Base(p) == LET segs == Split(p, "/") IN segs[Len(segs)]

-----------------------------------------------------------------------------
(* The sequential builders: createLinuxArchive ("linux"),                 *)
(* createMacOSArchive with matchPattern ("macos") and the sequential      *)
(* createWindowsArchive with the large-file branch ("winseq").            *)

SeqVariants == {"linux", "macos", "winseq"}

GoosOf(v) ==
  CASE v = "linux" -> "linux"
    [] v = "macos" -> "darwin"
    [] v \in {"winseq", "pool"} -> "windows"

MatcherOf(v) ==
  CASE v \in {"linux", "macos"} -> "matchPattern"
    [] v = "winseq" -> "prefix"
    [] v = "pool" -> "isExcluded"

IsTar(v) == v \in {"linux", "macos"}

\* the platform's exclude list, cut to the patterns that can match a
\* candidate entry; the macOS builder also runs with the list ignored
DotPatterns == << "./**/*.sock", "./**/node_modules", "./.cache" >>
BarePatterns == << "*.sock", "node_modules", ".cache" >>

PatternLists(v) ==
  CASE v = "linux" -> {DotPatterns}
    [] v = "macos" -> {DotPatterns, << >>}
    [] v \in {"winseq", "pool"} -> {DotPatterns, BarePatterns}

\* the number of I/O errors injected into one run
MaxErrors == 1

CanFault == Cardinality(faults) < MaxErrors

Fault(p, k) == [path |-> p, kind |-> k]

RelPath(p) == FromSlash(GoosOf(variant), p)

EntryExcluded(p) ==
  Excluded(MatcherOf(variant), GoosOf(variant), RelPath(p), excludePatterns) = TRUE

\* the bytes io.Copy put into an entry: one run of k bytes of file p
CopyData(p, k) == IF k = 0 THEN << >> ELSE << [src |-> p, bytes |-> k] >>

\* how far a copy can get before a read error
PartialCounts(size) == {0} \cup {k \in {size - 1} : k > 0}

\* tar.FileInfoHeader / zip.FileInfoHeader, then header.Name = relPath
LinkName(v, p) ==
  IF tree[p].type # "symlink" \/ ~IsTar(v) THEN ""
  ELSE IF v = "linux" THEN tree[p].target
  ELSE Base(p)

Header(v, p) ==
  [ name |-> RelPath(p), type |-> tree[p].type,
    size |-> IF tree[p].type = "file" THEN tree[p].size ELSE 0,
    link |-> LinkName(v, p), data |-> << >> ]

WithData(e, d) == [e EXCEPT !.data = e.data \o d]

\* archive/tar: WriteHeader flushes the previous entry and fails when
\* fewer bytes were written than its header declared
TarWritten(e) == IF e.data = << >> THEN 0 ELSE e.data[1].bytes

\* a variant of the tar writer that accepts a header after a short entry
TarNeverShort == FALSE

TarShort ==
  /\ IsTar(variant)
  /\ archive # << >>
  /\ TarWritten(archive[Len(archive)]) < archive[Len(archive)].size

Walking == walkState = "walking" /\ todo # << >>

\* the entry reaches the header: no walk error, not excluded
Included(p) == ~EntryExcluded(p)

WalkInit ==
  /\ variant \in SeqVariants
  /\ excludePatterns \in PatternLists(variant)
  /\ tree \in Trees
  /\ todo = WalkList(tree)
  /\ visited = << >>
  /\ opened = {}
  /\ archive = << >>
  /\ faults = {}
  /\ walkState = "walking"

WalkIdle ==
  /\ variant = "linux"
  /\ excludePatterns = << >>
  /\ tree = << >>
  /\ todo = << >>
  /\ visited = << >>
  /\ opened = {}
  /\ archive = << >>
  /\ faults = {}
  /\ walkState = "ok"

\* what a step of a builder leaves alone
WalkFrame == UNCHANGED <<matchVars, mainVars, poolVars, uploadVars, progressVars, rcloneVars>>

\* a variant whose callback returns the walk's error, which ends the walk
WalkAccessErrorReturned ==
  /\ Walking /\ CanFault
  /\ LET p == Head(todo)
     IN /\ visited' = Append(visited, p)
        /\ faults' = faults \cup {Fault(p, "access")}
  /\ walkState' = "error"
  /\ UNCHANGED <<variant, excludePatterns, tree, todo, opened, archive>>
  /\ WalkFrame

\* the callback is called with err != nil: logged, nil returned; a
\* directory that could not be read is not descended into
WalkAccessError ==
  /\ Walking /\ CanFault
  /\ LET p == Head(todo)
     IN /\ visited' = Append(visited, p)
        /\ faults' = faults \cup {Fault(p, "access")}
        /\ todo' = Prune(Tail(todo), p)
  /\ UNCHANGED <<variant, excludePatterns, tree, opened, archive, walkState>>
  /\ WalkFrame

\* a variant that returns nil instead of SkipDir for an excluded directory
WalkExcludedNoSkipDir ==
  /\ Walking
  /\ LET p == Head(todo)
     IN /\ EntryExcluded(p)
        /\ visited' = Append(visited, p)
        /\ todo' = Tail(todo)
  /\ UNCHANGED <<variant, excludePatterns, tree, opened, archive, faults, walkState>>
  /\ WalkFrame

\* the entry matches an exclude pattern: SkipDir for a directory
WalkExcluded ==
  /\ Walking
  /\ LET p == Head(todo)
     IN /\ EntryExcluded(p)
        /\ visited' = Append(visited, p)
        /\ todo' = IF tree[p].type = "dir" THEN Prune(Tail(todo), p) ELSE Tail(todo)
  /\ UNCHANGED <<variant, excludePatterns, tree, opened, archive, faults, walkState>>
  /\ WalkFrame

\* createLinuxArchive: os.Readlink fails, the symlink is skipped
WalkReadlinkError ==
  /\ Walking /\ CanFault
  /\ variant = "linux"
  /\ LET p == Head(todo)
     IN /\ Included(p)
        /\ tree[p].type = "symlink"
        /\ visited' = Append(visited, p)
        /\ faults' = faults \cup {Fault(p, "readlink")}
        /\ todo' = Tail(todo)
  /\ UNCHANGED <<variant, excludePatterns, tree, opened, archive, walkState>>
  /\ WalkFrame

\* tarWriter.WriteHeader fails: the callback returns the error and the
\* walk, and with it the builder, returns it
WalkHeaderError ==
  /\ Walking
  /\ LET p == Head(todo)
     IN /\ Included(p)
        /\ TarShort
        /\ visited' = Append(visited, p)
        /\ walkState' = "error"
  /\ UNCHANGED <<variant, excludePatterns, tree, todo, opened, archive, faults>>
  /\ WalkFrame

\* header written; for a regular file the content copied (and, in the
\* sequential Windows builder, copied again by addLargeFileToZip when the
\* file is larger than 1 GiB)
WalkWriteEntry ==
  /\ Walking
  /\ LET p == Head(todo)
         copies == IF tree[p].type # "file" THEN << >>
                   ELSE IF variant = "winseq" /\ tree[p].size > LargeFileLimit
                   THEN CopyData(p, tree[p].size) \o CopyData(p, tree[p].size)
                   ELSE CopyData(p, tree[p].size)
     IN /\ Included(p)
        /\ ~TarShort
        /\ visited' = Append(visited, p)
        /\ archive' = Append(archive, WithData(Header(variant, p), copies))
        /\ opened' = IF tree[p].type = "file" THEN opened \cup {p} ELSE opened
        /\ todo' = Tail(todo)
  /\ UNCHANGED <<variant, excludePatterns, tree, faults, walkState>>
  /\ WalkFrame

\* header written, os.Open fails: logged, nil returned
WalkOpenError ==
  /\ Walking /\ CanFault
  /\ LET p == Head(todo)
     IN /\ Included(p)
        /\ ~TarShort
        /\ tree[p].type = "file"
        /\ visited' = Append(visited, p)
        /\ archive' = Append(archive, Header(variant, p))
        /\ opened' = opened \cup {p}
        /\ faults' = faults \cup {Fault(p, "open")}
        /\ todo' = Tail(todo)
  /\ UNCHANGED <<variant, excludePatterns, tree, walkState>>
  /\ WalkFrame

\* header written, file opened, the copy fails after k bytes: the macOS
\* and Windows builders log and return nil, the Linux builder returns
\* the error
WalkReadError ==
  /\ Walking /\ CanFault
  /\ LET p == Head(todo)
     IN /\ Included(p)
        /\ ~TarShort
        /\ tree[p].type = "file"
        /\ \E k \in PartialCounts(tree[p].size) :
             archive' = Append(archive, WithData(Header(variant, p), CopyData(p, k)))
        /\ visited' = Append(visited, p)
        /\ opened' = opened \cup {p}
        /\ faults' = faults \cup {Fault(p, "read")}
        /\ IF variant = "linux"
           THEN walkState' = "error" /\ todo' = todo
           ELSE walkState' = walkState /\ todo' = Tail(todo)
  /\ UNCHANGED <<variant, excludePatterns, tree>>
  /\ WalkFrame

\* sequential Windows builder: the first copy succeeded and
\* addLargeFileToZip fails (open, or copy after k bytes): its error is
\* returned
WalkLargeFileError ==
  /\ Walking /\ CanFault
  /\ variant = "winseq"
  /\ LET p == Head(todo)
     IN /\ Included(p)
        /\ tree[p].type = "file"
        /\ tree[p].size > LargeFileLimit
        /\ \E k \in PartialCounts(tree[p].size) :
             archive' = Append(archive,
                          WithData(Header(variant, p),
                                   CopyData(p, tree[p].size) \o CopyData(p, k)))
        /\ visited' = Append(visited, p)
        /\ opened' = opened \cup {p}
        /\ faults' = faults \cup {Fault(p, "large")}
        /\ walkState' = "error"
  /\ UNCHANGED <<variant, excludePatterns, tree, todo>>
  /\ WalkFrame

\* filepath.Walk returned nil: the builder returns nil
WalkFinish ==
  /\ walkState = "walking"
  /\ todo = << >>
  /\ walkState' = "ok"
  /\ UNCHANGED <<variant, excludePatterns, tree, todo, visited, opened, archive, faults>>
  /\ WalkFrame

NextWalk ==
  \/ WalkAccessError
  \/ WalkExcluded
  \/ WalkReadlinkError
  \/ WalkHeaderError
  \/ WalkWriteEntry
  \/ WalkOpenError
  \/ WalkReadError
  \/ WalkLargeFileError
  \/ WalkFinish

-----------------------------------------------------------------------------
(* The worker-pool createWindowsArchive ("pool"): a producer goroutine    *)
(* walks the tree and sends the regular files to filesChan; numWorkers    *)
(* workers receive them and add them to the zip under zipMutex; the       *)
(* calling goroutine waits for the workers, closes errorsChan and drains  *)
(* it.                                                                    *)

\* the largest GOMAXPROCS explored
MaxWorkers == 2

\* the trees given to the pool: every file small, the symlink present
PoolTrees ==
  {t \in Trees : t["b.txt"].size = 1 /\ {"link", "foo.sock"} \subseteq DOMAIN t}

\* the number of files of one run for which addFileToZip returns an error
MaxHeaderErrors == 2

NoFile == ""

WorkerIdle == [pc |-> "recv", file |-> NoFile, idx |-> 0, err |-> FALSE]

Workers == 1..numWorkers

PoolInit ==
  /\ variant = "pool"
  /\ excludePatterns \in PatternLists("pool")
  /\ tree \in PoolTrees
  /\ todo = WalkList(tree)
  /\ visited = << >>
  /\ opened = {}
  /\ archive = << >>
  /\ faults = {}
  /\ walkState = "walking"
  /\ numWorkers \in 1..MaxWorkers
  /\ filesChan = << >>
  /\ filesClosed = FALSE
  /\ errorsChan = << >>
  /\ errorsClosed = FALSE
  /\ workers = [w \in 1..numWorkers |-> WorkerIdle]
  /\ zipMutex = 0

PoolIdle ==
  /\ numWorkers = 1
  /\ filesChan = << >>
  /\ filesClosed = TRUE
  /\ errorsChan = << >>
  /\ errorsClosed = TRUE
  /\ workers = [w \in 1..1 |-> [WorkerIdle EXCEPT !.pc = "done"]]
  /\ zipMutex = 0

\* what a step of the pool leaves alone
PoolFrame == UNCHANGED <<matchVars, mainVars, uploadVars, progressVars, rcloneVars>>

Producing == ~filesClosed /\ todo # << >>

\* the producer's callback is called with err != nil: nil returned
PoolAccessError ==
  /\ Producing /\ CanFault
  /\ LET p == Head(todo)
     IN /\ visited' = Append(visited, p)
        /\ faults' = faults \cup {Fault(p, "access")}
        /\ todo' = Prune(Tail(todo), p)
  /\ UNCHANGED <<variant, excludePatterns, tree, opened, archive, walkState>>
  /\ UNCHANGED poolVars
  /\ PoolFrame

\* isExcluded: SkipDir for a directory, nil for a file
PoolExcluded ==
  /\ Producing
  /\ LET p == Head(todo)
     IN /\ EntryExcluded(p)
        /\ visited' = Append(visited, p)
        /\ todo' = IF tree[p].type = "dir" THEN Prune(Tail(todo), p) ELSE Tail(todo)
  /\ UNCHANGED <<variant, excludePatterns, tree, opened, archive, faults, walkState>>
  /\ UNCHANGED poolVars
  /\ PoolFrame

\* a regular file is sent to filesChan; the send blocks while the
\* channel is full
PoolSendFile ==
  /\ Producing
  /\ LET p == Head(todo)
     IN /\ Included(p)
        /\ tree[p].type = "file"
        /\ Len(filesChan) < 2 * numWorkers
        /\ filesChan' = Append(filesChan, p)
        /\ visited' = Append(visited, p)
        /\ todo' = Tail(todo)
  /\ UNCHANGED <<variant, excludePatterns, tree, opened, archive, faults, walkState>>
  /\ UNCHANGED <<numWorkers, filesClosed, errorsChan, errorsClosed, workers, zipMutex>>
  /\ PoolFrame

\* a directory or a symlink: nothing is sent and nothing is written
PoolSkipNonRegular ==
  /\ Producing
  /\ LET p == Head(todo)
     IN /\ Included(p)
        /\ tree[p].type # "file"
        /\ visited' = Append(visited, p)
        /\ todo' = Tail(todo)
  /\ UNCHANGED <<variant, excludePatterns, tree, opened, archive, faults, walkState>>
  /\ UNCHANGED poolVars
  /\ PoolFrame

\* the walk is over: close(filesChan)
PoolCloseFiles ==
  /\ ~filesClosed /\ todo = << >>
  /\ walkState = "walking"
  /\ filesClosed' = TRUE
  /\ UNCHANGED walkVars
  /\ UNCHANGED <<numWorkers, filesChan, errorsChan, errorsClosed, workers, zipMutex>>
  /\ PoolFrame

SetWorker(w, r) == workers' = [workers EXCEPT ![w] = r]

\* for file := range filesChan: a file is received
WorkerReceive(w) ==
  /\ workers[w].pc = "recv"
  /\ filesChan # << >>
  /\ SetWorker(w, [workers[w] EXCEPT !.pc = "lock", !.file = Head(filesChan),
                                     !.idx = 0, !.err = FALSE])
  /\ filesChan' = Tail(filesChan)
  /\ UNCHANGED walkVars
  /\ UNCHANGED <<numWorkers, filesClosed, errorsChan, errorsClosed, zipMutex>>
  /\ PoolFrame

\* the range loop ends when filesChan is closed and empty: wg.Done
WorkerExit(w) ==
  /\ workers[w].pc = "recv"
  /\ filesChan = << >> /\ filesClosed
  /\ SetWorker(w, [workers[w] EXCEPT !.pc = "done"])
  /\ UNCHANGED walkVars
  /\ UNCHANGED <<numWorkers, filesChan, filesClosed, errorsChan, errorsClosed, zipMutex>>
  /\ PoolFrame

\* a variant of the worker that does not wait for the mutex
WorkerLockNoMutex(w) ==
  /\ workers[w].pc = "lock"
  /\ zipMutex' = w
  /\ SetWorker(w, [workers[w] EXCEPT !.pc = "header"])
  /\ UNCHANGED walkVars
  /\ UNCHANGED <<numWorkers, filesChan, filesClosed, errorsChan, errorsClosed>>
  /\ PoolFrame

\* zipMutex.Lock()
WorkerLock(w) ==
  /\ workers[w].pc = "lock"
  /\ zipMutex = 0
  /\ zipMutex' = w
  /\ SetWorker(w, [workers[w] EXCEPT !.pc = "header"])
  /\ UNCHANGED walkVars
  /\ UNCHANGED <<numWorkers, filesChan, filesClosed, errorsChan, errorsClosed>>
  /\ PoolFrame

\* addFileToZip: FileInfoHeader or CreateHeader fails, the error is returned
WorkerHeaderError(w) ==
  /\ workers[w].pc = "header"
  /\ \A f \in faults : f.kind = "header"
  /\ Cardinality(faults) < MaxHeaderErrors
  /\ faults' = faults \cup {Fault(workers[w].file, "header")}
  /\ SetWorker(w, [workers[w] EXCEPT !.pc = "unlock", !.err = TRUE])
  /\ UNCHANGED <<variant, excludePatterns, tree, todo, visited, opened, archive, walkState>>
  /\ UNCHANGED <<numWorkers, filesChan, filesClosed, errorsChan, errorsClosed, zipMutex>>
  /\ PoolFrame

\* addFileToZip: the entry's header is created
WorkerCreateHeader(w) ==
  /\ workers[w].pc = "header"
  /\ archive' = Append(archive, Header(variant, workers[w].file))
  /\ SetWorker(w, [workers[w] EXCEPT !.pc = "copy", !.idx = Len(archive) + 1])
  /\ UNCHANGED <<variant, excludePatterns, tree, todo, visited, opened, faults, walkState>>
  /\ UNCHANGED <<numWorkers, filesChan, filesClosed, errorsChan, errorsClosed, zipMutex>>
  /\ PoolFrame

\* addFileToZip: os.Open fails, a warning is logged and nil returned
WorkerOpenError(w) ==
  /\ workers[w].pc = "copy"
  /\ CanFault
  /\ faults' = faults \cup {Fault(workers[w].file, "open")}
  /\ SetWorker(w, [workers[w] EXCEPT !.pc = "unlock"])
  /\ UNCHANGED <<variant, excludePatterns, tree, todo, visited, opened, archive, walkState>>
  /\ UNCHANGED <<numWorkers, filesChan, filesClosed, errorsChan, errorsClosed, zipMutex>>
  /\ PoolFrame

\* addFileToZip: io.CopyBuffer fails part way, a warning is logged and
\* nil returned
WorkerReadError(w) ==
  /\ workers[w].pc = "copy"
  /\ CanFault
  /\ LET f == workers[w].file
     IN \E k \in PartialCounts(tree[f].size) :
          /\ archive' = [archive EXCEPT ![workers[w].idx] = WithData(@, CopyData(f, k))]
          /\ opened' = opened \cup {f}
          /\ faults' = faults \cup {Fault(f, "read")}
  /\ SetWorker(w, [workers[w] EXCEPT !.pc = "unlock"])
  /\ UNCHANGED <<variant, excludePatterns, tree, todo, visited, walkState>>
  /\ UNCHANGED <<numWorkers, filesChan, filesClosed, errorsChan, errorsClosed, zipMutex>>
  /\ PoolFrame

\* addFileToZip: the file is opened and copied into its entry
WorkerCopy(w) ==
  /\ workers[w].pc = "copy"
  /\ LET f == workers[w].file
     IN /\ archive' = [archive EXCEPT ![workers[w].idx] =
                         WithData(@, CopyData(f, tree[f].size))]
        /\ opened' = opened \cup {f}
  /\ SetWorker(w, [workers[w] EXCEPT !.pc = "unlock"])
  /\ UNCHANGED <<variant, excludePatterns, tree, todo, visited, faults, walkState>>
  /\ UNCHANGED <<numWorkers, filesChan, filesClosed, errorsChan, errorsClosed, zipMutex>>
  /\ PoolFrame

\* zipMutex.Unlock(); then the error, if any, is to be sent
WorkerUnlock(w) ==
  /\ workers[w].pc = "unlock"
  /\ zipMutex' = 0
  /\ SetWorker(w, [workers[w] EXCEPT !.pc = IF workers[w].err THEN "send" ELSE "recv"])
  /\ UNCHANGED walkVars
  /\ UNCHANGED <<numWorkers, filesChan, filesClosed, errorsChan, errorsClosed>>
  /\ PoolFrame

\* errorsChan <- err; the send blocks while the channel is full
WorkerSendError(w) ==
  /\ workers[w].pc = "send"
  /\ Len(errorsChan) < numWorkers
  /\ errorsChan' = Append(errorsChan, workers[w].file)
  /\ SetWorker(w, [workers[w] EXCEPT !.pc = "recv"])
  /\ UNCHANGED walkVars
  /\ UNCHANGED <<numWorkers, filesChan, filesClosed, errorsClosed, zipMutex>>
  /\ PoolFrame

\* a variant of the caller that does not wait for the workers
PoolWaitDoneEarly ==
  /\ ~errorsClosed
  /\ errorsClosed' = TRUE
  /\ UNCHANGED walkVars
  /\ UNCHANGED <<numWorkers, filesChan, filesClosed, errorsChan, workers, zipMutex>>
  /\ PoolFrame

\* wg.Wait() returns when every worker is done; close(errorsChan)
PoolWaitDone ==
  /\ ~errorsClosed
  /\ \A w \in Workers : workers[w].pc = "done"
  /\ errorsClosed' = TRUE
  /\ UNCHANGED walkVars
  /\ UNCHANGED <<numWorkers, filesChan, filesClosed, errorsChan, workers, zipMutex>>
  /\ PoolFrame

\* the first error drained from errorsChan is returned, else nil
PoolReturn ==
  /\ errorsClosed
  /\ walkState = "walking"
  /\ walkState' = IF errorsChan # << >> THEN "error" ELSE "ok"
  /\ UNCHANGED <<variant, excludePatterns, tree, todo, visited, opened, archive, faults>>
  /\ UNCHANGED poolVars
  /\ PoolFrame

NextPool ==
  \/ PoolAccessError
  \/ PoolExcluded
  \/ PoolSendFile
  \/ PoolSkipNonRegular
  \/ PoolCloseFiles
  \/ \E w \in Workers : WorkerReceive(w)
  \/ \E w \in Workers : WorkerExit(w)
  \/ \E w \in Workers : WorkerLock(w)
  \/ \E w \in Workers : WorkerHeaderError(w)
  \/ \E w \in Workers : WorkerCreateHeader(w)
  \/ \E w \in Workers : WorkerOpenError(w)
  \/ \E w \in Workers : WorkerReadError(w)
  \/ \E w \in Workers : WorkerCopy(w)
  \/ \E w \in Workers : WorkerUnlock(w)
  \/ \E w \in Workers : WorkerSendError(w)
  \/ PoolWaitDone
  \/ PoolReturn

-----------------------------------------------------------------------------
(* The SSH upload: UploadToSSH, which calls UploadToSSHBinary            *)
(* ("binary"), UploadToSSHOriginal ("original"), UploadToSSHGoph ("goph") *)
(* and UploadToSSHSCP ("scp").  A run is the list of its steps; a step    *)
(* succeeds or fails, and the first failure is returned.                  *)

SSHVariants == {"binary", "original", "goph", "scp"}

\* the default key locations, in the order each implementation tries them
DefaultKeyPaths(v) ==
  IF v = "original" THEN << "id_rsa", "id_ed25519", "id_ecdsa" >>
  ELSE << "id_ed25519", "id_rsa", "id_ecdsa" >>

\* the steps of each implementation, in program order
UploadPlan(v) ==
  CASE v = "original" ->
         << "auth", "connect", "sftp", "mkdir", "openLocal", "stat", "create", "stream" >>
    [] v = "goph" ->
         << "stat", "auth", "connect", "mkdir", "openLocal", "sftp", "create", "stream" >>
    [] v = "scp" ->
         << "stat", "auth", "connect", "session", "mkdir", "openLocal", "scpCopy" >>
    [] v = "binary" ->
         << "stat", "sshMkdir", "scpCommand" >>

UploadInit ==
  /\ uVariant \in SSHVariants
  /\ uConfig \in [KeyFile : {"", "key"}, Password : {"", "pw"}, User : {"", "ivan"}]
  /\ uKeyFileOk \in BOOLEAN
  /\ uDefaultKeys \in SUBSET {"id_rsa", "id_ed25519", "id_ecdsa"}
  /\ uPlan = UploadPlan(uVariant)
  /\ uAuth = << >>
  /\ uSteps = << >>
  /\ uResult = "none"
  /\ uRemote \in {"absent", "complete"}
  /\ uOpen = {}

UploadIdle ==
  /\ uVariant = "binary"
  /\ uConfig = [KeyFile |-> "", Password |-> "", User |-> ""]
  /\ uKeyFileOk = FALSE
  /\ uDefaultKeys = {}
  /\ uPlan = << >>
  /\ uAuth = << >>
  /\ uSteps = << >>
  /\ uResult = "ok"
  /\ uRemote = "absent"
  /\ uOpen = {}

\* what a step of the upload leaves alone
UploadFrame == UNCHANGED <<matchVars, walkVars, mainVars, poolVars, progressVars, rcloneVars>>

\* the next step to run is k
AtStep(k) == uResult = "none" /\ uPlan # << >> /\ Head(uPlan) = k

\* what a successful step leaves open: the SSH connection, the SFTP
\* client, the session, the local file, the remote file handle
Opens(k) ==
  CASE k = "connect"   -> {"conn"}
    [] k = "sftp"      -> {"sftp"}
    [] k = "session"   -> {"session"}
    [] k = "openLocal" -> {"local"}
    [] k = "create"    -> {"remote"}
    [] OTHER           -> {}

\* what a step closes itself, whatever its outcome: UploadToSSHSCP calls
\* session.Close() right after CombinedOutput
ClosedInline(v, k) == IF v = "scp" /\ k = "mkdir" THEN {"session"} ELSE {}

\* a variant in which the remote file handle is not closed on return
DeferredNoRemote(v) == {"conn", "sftp", "local"}

\* what the deferred Close calls close when the function returns
Deferred(v) == {"conn", "sftp", "local", "remote"}

\* step k was attempted and succeeded
StepDone(k) ==
  /\ uSteps' = Append(uSteps, k)
  /\ uPlan' = Tail(uPlan)
  /\ uResult' = uResult
  /\ uOpen' = (uOpen \cup Opens(k)) \ ClosedInline(uVariant, k)

\* step k was attempted and failed: its error is returned and the
\* deferred calls run
StepFailed(k) ==
  /\ uSteps' = Append(uSteps, k)
  /\ uPlan' = uPlan
  /\ uResult' = k
  /\ uOpen' = (uOpen \ ClosedInline(uVariant, k)) \ Deferred(uVariant)

\* tryDefaultKeys: every default key that exists and parses, in order
tryDefaultKeys(paths, usable) == SelectSeq(paths, LAMBDA k : k \in usable)

\* the loops of UploadToSSHGoph and UploadToSSHSCP: the first default key
\* that loads
firstDefaultKey(paths, usable) ==
  IF tryDefaultKeys(paths, usable) = << >> THEN << >>
  ELSE << Head(tryDefaultKeys(paths, usable)) >>

\* the credentials the authentication block ends with; << >> when it
\* returns an error
ConfigureAuth(v, config, keyFileOk, usable) ==
  IF config.KeyFile # ""
  THEN IF keyFileOk THEN << "keyfile" >> ELSE << >>
  ELSE IF config.Password # ""
  THEN << "password" >>
  ELSE IF v = "original"
  THEN tryDefaultKeys(DefaultKeyPaths(v), usable)
  ELSE IF v = "scp" /\ config.User = ""
  THEN << >>
  ELSE firstDefaultKey(DefaultKeyPaths(v), usable)

\* the authentication block of the three library implementations
SSHAuth ==
  /\ AtStep("auth")
  /\ uAuth' = ConfigureAuth(uVariant, uConfig, uKeyFileOk, uDefaultKeys)
  /\ IF uAuth' = << >> THEN StepFailed("auth") ELSE StepDone("auth")
  /\ UNCHANGED <<uVariant, uConfig, uKeyFileOk, uDefaultKeys, uRemote>>
  /\ UploadFrame

\* a step that touches nothing on the remote side: it succeeds or fails
PlainStep(k) ==
  /\ AtStep(k)
  /\ StepDone(k) \/ StepFailed(k)
  /\ UNCHANGED <<uVariant, uConfig, uKeyFileOk, uDefaultKeys, uAuth, uRemote>>
  /\ UploadFrame

\* os.Stat(localPath) / localFile.Stat()
SSHStat == PlainStep("stat")

\* ssh.Dial / goph.NewConn / scpClient.Connect with the chosen credentials
SSHConnect == PlainStep("connect")

\* sftp.NewClient / client.NewSftp
SSHSftp == PlainStep("sftp")

\* scpClient.SSHClient().NewSession()
SSHSession == PlainStep("session")

\* sftpClient.MkdirAll / "mkdir -p" over the connection
SSHMkdir == PlainStep("mkdir")

\* os.Open(localPath)
SSHOpenLocal == PlainStep("openLocal")

\* sftpClient.Create: the remote file exists and is empty
SSHCreate ==
  /\ AtStep("create")
  /\ \/ StepDone("create") /\ uRemote' = "partial"
     \/ StepFailed("create") /\ uRemote' = uRemote
  /\ UNCHANGED <<uVariant, uConfig, uKeyFileOk, uDefaultKeys, uAuth>>
  /\ UploadFrame

\* a variant of the copy that removes the remote file when the copy fails
SSHStreamWithCleanup ==
  /\ AtStep("stream")
  /\ \/ StepDone("stream") /\ uRemote' = "complete"
     \/ StepFailed("stream") /\ uRemote' = "absent"
  /\ UNCHANGED <<uVariant, uConfig, uKeyFileOk, uDefaultKeys, uAuth>>
  /\ UploadFrame

\* io.Copy(remoteFile, progressReader): on failure the error is returned
\* and the remote file stays as far as it was written
SSHStream ==
  /\ AtStep("stream")
  /\ \/ StepDone("stream") /\ uRemote' = "complete"
     \/ StepFailed("stream") /\ uRemote' = "partial"
  /\ UNCHANGED <<uVariant, uConfig, uKeyFileOk, uDefaultKeys, uAuth>>
  /\ UploadFrame

\* scpClient.CopyFromFilePassThru: creates the remote file and streams
\* into it; it can fail before or after the file was created
SCPCopy ==
  /\ AtStep("scpCopy")
  /\ \/ StepDone("scpCopy") /\ uRemote' = "complete"
     \/ StepFailed("scpCopy") /\ uRemote' \in {uRemote, "partial"}
  /\ UNCHANGED <<uVariant, uConfig, uKeyFileOk, uDefaultKeys, uAuth>>
  /\ UploadFrame

\* the credentials UploadToSSHBinary passes on: -i KeyFile when set; the
\* password is passed to neither command
BinaryAuth(config) == IF config.KeyFile # "" THEN << "keyfile" >> ELSE << >>

\* exec.Command("ssh", ..., "mkdir -p ..."): connects and creates the
\* remote directory
BinaryMkdir ==
  /\ AtStep("sshMkdir")
  /\ uAuth' = BinaryAuth(uConfig)
  /\ StepDone("sshMkdir") \/ StepFailed("sshMkdir")
  /\ UNCHANGED <<uVariant, uConfig, uKeyFileOk, uDefaultKeys, uRemote>>
  /\ UploadFrame

\* exec.Command("scp", ...): connects, creates the remote file and streams
BinaryScp ==
  /\ AtStep("scpCommand")
  /\ \/ StepDone("scpCommand") /\ uRemote' = "complete"
     \/ StepFailed("scpCommand") /\ uRemote' \in {uRemote, "partial"}
  /\ UNCHANGED <<uVariant, uConfig, uKeyFileOk, uDefaultKeys, uAuth>>
  /\ UploadFrame

\* every step succeeded: nil is returned and the deferred calls run
SSHReturn ==
  /\ uResult = "none" /\ uPlan = << >>
  /\ uResult' = "ok"
  /\ uOpen' = uOpen \ Deferred(uVariant)
  /\ UNCHANGED <<uVariant, uConfig, uKeyFileOk, uDefaultKeys, uPlan, uAuth, uSteps,
                 uRemote>>
  /\ UploadFrame

NextUpload ==
  \/ SSHAuth
  \/ SSHStat
  \/ SSHConnect
  \/ SSHSftp
  \/ SSHSession
  \/ SSHMkdir
  \/ SSHOpenLocal
  \/ SSHCreate
  \/ SSHStream
  \/ SCPCopy
  \/ BinaryMkdir
  \/ BinaryScp
  \/ SSHReturn

-----------------------------------------------------------------------------
(* progressReader: the io.Reader the upload copies from.  io.Copy calls     *)
(* Read until it returns an error; io.EOF ends the copy successfully.       *)

\* the largest local file explored, in bytes
MaxBytes == 4

\* the length of the buffer io.Copy hands to Read
BufSize == 3

\* the last clock value explored, in seconds
MaxClock == 10

\* seconds that may pass between two Read calls
Delays == {0, 2, 5}

\* 5*time.Second
ReportInterval == 5

\* the bytes of one display unit of the "%.2f MB" figures
Quantum == 2

ByteSeqs == UNION { [1..k -> {0, 1}] : k \in 0..MaxBytes }

\* float64(b)/1024/1024 printed with %.2f: b rounded to the nearest unit
Shown(b) == (2 * b + Quantum) \div (2 * Quantum)

\* float64(pr.transferred) / float64(pr.total) * 100
Percentage(transferred, total) ==
  IF total # 0 THEN [class |-> "finite", value |-> (transferred * 100) \div total]
  ELSE IF transferred = 0 THEN [class |-> "NaN", value |-> 0]
  ELSE [class |-> "Inf", value |-> 0]

\* a variant that keeps only the last read's count
AccumulateLast(transferred, n) == n

\* pr.transferred += int64(n)
Accumulate(transferred, n) == transferred + n

\* pr.transferred == pr.total || err == io.EOF
IsCompletion(transferred, total, err) == transferred = total \/ err = "EOF"

\* now.Sub(pr.lastReport) >= 5*time.Second || completion
ShouldReport(now, lastReport, transferred, total, err) ==
  \/ lastReport = {}
  \/ \E t \in lastReport : now - t >= ReportInterval
  \/ IsCompletion(transferred, total, err)

\* the line written by pr.sugar.Infof
ReportLine(now, transferred, total, err) ==
  IF IsCompletion(transferred, total, err)
  THEN [kind |-> "completed", shown |-> Shown(total), at |-> now,
        percentage |-> Percentage(transferred, total)]
  ELSE [kind |-> "progress", shown |-> Shown(transferred), at |-> now,
        percentage |-> Percentage(transferred, total)]

\* a variant that returns one byte less than was read
ReadResultShort(n, err) == <<IF n > 1 THEN n - 1 ELSE n, err>>

\* return n, err
ReadResult(n, err) == <<n, err>>

ProgressInit ==
  /\ pSource \in ByteSeqs
  /\ pOffset = 0
  /\ pTotal = Len(pSource)
  /\ pTransferred = 0
  /\ pStart = 0
  /\ pNow = 1
  /\ pLastReport = {}
  /\ pReports = << >>
  /\ pUnder = << >>
  /\ pReturns = << >>
  /\ pDest = << >>
  /\ pState = "copying"

ProgressIdle ==
  /\ pSource = << >>
  /\ pOffset = 0
  /\ pTotal = 0
  /\ pTransferred = 0
  /\ pStart = 0
  /\ pNow = 0
  /\ pLastReport = {}
  /\ pReports = << >>
  /\ pUnder = << >>
  /\ pReturns = << >>
  /\ pDest = << >>
  /\ pState = "idle"

ProgressFrame == UNCHANGED <<matchVars, walkVars, mainVars, poolVars, uploadVars, rcloneVars>>

\* One Read call, d seconds after the previous one, in which pr.reader.Read
\* puts n bytes in the buffer and returns (n, err); io.Copy then writes the
\* bytes Read reported and stops on an error.
Read(n, err, d) ==
  LET now == pNow + d
      buf == SubSeq(pSource, pOffset + 1, pOffset + n)
      transferred == Accumulate(pTransferred, n)
      report == ShouldReport(now, pLastReport, transferred, pTotal, err)
      elapsed == now - pStart
      result == ReadResult(n, err)
  IN  /\ pState = "copying"
      /\ now <= MaxClock
      /\ pNow' = now
      /\ pOffset' = pOffset + n
      /\ pUnder' = Append(pUnder, <<n, err>>)
      /\ pTransferred' = transferred
      /\ pLastReport' = IF report THEN {now} ELSE pLastReport
      /\ pReports' = IF report /\ elapsed > 0
                     THEN Append(pReports, ReportLine(now, transferred, pTotal, err))
                     ELSE pReports
      /\ pReturns' = Append(pReturns, result)
      /\ pDest' = pDest \o SubSeq(buf, 1, result[1])
      /\ pState' = CASE result[2] = "nil" -> "copying"
                     [] result[2] = "EOF" -> "ok"
                     [] OTHER -> "err"
      /\ UNCHANGED <<pSource, pTotal, pStart>>
      /\ ProgressFrame

\* the file has bytes left: the underlying reader delivers some of them
ProgressReadData ==
  \E d \in Delays : \E n \in 1..BufSize :
    /\ pOffset + n <= Len(pSource)
    /\ Read(n, "nil", d)

\* the file is exhausted: the underlying reader returns 0, io.EOF
ProgressReadEOF ==
  \E d \in Delays :
    /\ pOffset = Len(pSource)
    /\ Read(0, "EOF", d)

\* the underlying read fails
ProgressReadError ==
  \E d \in Delays :
    /\ pState = "copying"
    /\ Read(0, "err", d)

NextProgress ==
  \/ ProgressReadData
  \/ ProgressReadEOF
  \/ ProgressReadError

-----------------------------------------------------------------------------
(* UploadToRclone: one operations/copyfile request to librclone.            *)

\* the local archive paths and the destinations explored
RcloneSources == {"/tmp/u.tar.gz", "/tmp/b/u.zip", "/u.zip"}

RcloneDestinations == {"drive:", "drive:Backup/host", "s3:bucket/dir", "/mnt/nas"}

\* the status codes librclone.RPC may return
RcloneStatuses == {0, 200, 400, 404, 500, 0 - 1}

\* filepath.Dir of an absolute slash-separated path
DirOf(p) ==
  LET i == LastIndex(p, "/") IN IF i <= 1 THEN "/" ELSE SubSeq(p, 1, i - 1)

\* the copyFileRequest for a source file and a destination
copyFileRequest(source, destination) ==
  [SrcFs |-> DirOf(source), SrcRemote |-> Base(source),
   DstFs |-> destination, DstRemote |-> Base(source)]

\* !(status != 0 && status != 200)
StatusIsSuccess(status) == status = 0 \/ status = 200

RcloneInit ==
  /\ rSource \in RcloneSources
  /\ rDestination \in RcloneDestinations
  /\ rRequests = << >>
  /\ rStatus = << >>
  /\ rPc = "start"
  /\ rResult = "none"

RcloneIdle ==
  /\ rSource = ""
  /\ rDestination = ""
  /\ rRequests = << >>
  /\ rStatus = << >>
  /\ rPc = "returned"
  /\ rResult = "ok"

RcloneFrame ==
  UNCHANGED <<matchVars, walkVars, mainVars, poolVars, uploadVars, progressVars>>

\* librclone.RPC("operations/copyfile", reqJSON) and the test of its status
RcloneRPC ==
  /\ rPc = "start"
  /\ \E status \in RcloneStatuses :
       /\ rRequests' = Append(rRequests, copyFileRequest(rSource, rDestination))
       /\ rStatus' = Append(rStatus, status)
       /\ IF StatusIsSuccess(status)
          THEN rPc' = "stat" /\ rResult' = "none"
          ELSE rPc' = "returned" /\ rResult' = "rclone copy failed"
  /\ UNCHANGED <<rSource, rDestination>>
  /\ RcloneFrame

\* os.Stat(source) for the statistics line, then return nil
RcloneStat ==
  /\ rPc = "stat"
  /\ rPc' = "returned"
  /\ rResult' \in {"ok", "failed to get file info"}
  /\ UNCHANGED <<rSource, rDestination, rRequests, rStatus>>
  /\ RcloneFrame

NextRclone ==
  \/ RcloneRPC
  \/ RcloneStat

-----------------------------------------------------------------------------
(* The command: PreRunE, RunE, CreateBackup and the builder's handling of *)
(* its output file, the upload and the cleanup.  The walk itself is the   *)
(* one above; here it is a step that succeeds or fails.  A run is one     *)
(* process; the file at the backup path outlives it.                      *)

\* the number of runs that use the same backup path
MaxRuns == 2

\* the -c / --compression values explored: below, inside and above 0..9
CompressionLevels == {0 - 1, 0, 3, 9, 10}

defaultCompressionLevel == 6

BestCompression == 9

\* a variant of the clamp that forgets the upper limit
ClampLevelNoUpper(L) == IF L < 0 THEN defaultCompressionLevel ELSE L

\* CreateBackup: a level outside 0..9 becomes the default
ClampLevel(L) == IF L < 0 \/ L > BestCompression THEN defaultCompressionLevel ELSE L

\* pgzip.NewWriterLevel accepts HuffmanOnly (-2) to BestCompression
LevelAccepted(L) == L >= 0 - 2 /\ L <= BestCompression

\* The flags of one command line.  previewFlag is --preview, which is
\* registered with Flags().Bool and bound to no field: opts.preview is
\* never assigned and keeps its zero value.
Options ==
  [ previewFlag : BOOLEAN, preview : {FALSE},
    backupOnly : BOOLEAN, skipUpload : BOOLEAN,
    useSSH : BOOLEAN, keepBackup : BOOLEAN,
    destination : {"", "drive:"}, sshHost : {"", "host"},
    compression : CompressionLevels ]

MainInit ==
  /\ opts \in Options
  /\ sourceExists \in BOOLEAN
  /\ mainPc = "preRun"
  /\ fileState = "absent"
  /\ fileOpen = FALSE
  /\ writers = {}
  /\ archiveErr = FALSE
  /\ backupResult = "none"
  /\ uploadState = "none"
  /\ removed = FALSE
  /\ exitState = "none"
  /\ runNo = 1
  /\ builderLevel = {}
  /\ closeFailed = {}
  /\ fileResult = "none"

MainIdle ==
  /\ opts = [ previewFlag |-> FALSE, preview |-> FALSE, backupOnly |-> FALSE,
               skipUpload |-> FALSE,
              useSSH |-> FALSE, keepBackup |-> FALSE,
              destination |-> "", sshHost |-> "", compression |-> 6 ]
  /\ sourceExists = TRUE
  /\ mainPc = "ended"
  /\ fileState = "absent"
  /\ fileOpen = FALSE
  /\ writers = {}
  /\ archiveErr = FALSE
  /\ backupResult = "none"
  /\ uploadState = "none"
  /\ removed = FALSE
  /\ exitState = "none"
  /\ runNo = MaxRuns
  /\ builderLevel = {}
  /\ closeFailed = {}
  /\ fileResult = "none"

\* what a step of the command leaves alone
MainFrame == UNCHANGED <<matchVars, walkVars, poolVars, uploadVars, progressVars, rcloneVars>>

Exit(result) == mainPc' = "exit" /\ exitState' = result

\* a variant of PreRunE that checks the rclone destination only
PreRunEDestinationOnly ==
  /\ mainPc = "preRun"
  /\ IF ~opts.skipUpload /\ ~opts.backupOnly /\ ~opts.useSSH /\ opts.destination = ""
     THEN Exit("err")
     ELSE mainPc' = "run" /\ exitState' = exitState
  /\ UNCHANGED <<opts, sourceExists, fileState, fileOpen, writers, archiveErr,
                 backupResult, uploadState, removed, runNo>>
  /\ UNCHANGED <<builderLevel, closeFailed, fileResult>>
  /\ MainFrame

\* PreRunE: a run that would upload needs its target
PreRunE ==
  /\ mainPc = "preRun"
  /\ IF ~opts.skipUpload /\ ~opts.backupOnly
        /\ ( IF opts.useSSH THEN opts.sshHost = "" ELSE opts.destination = "" )
     THEN Exit("err")
     ELSE mainPc' = "run" /\ exitState' = exitState
  /\ UNCHANGED <<opts, sourceExists, fileState, fileOpen, writers, archiveErr,
                 backupResult, uploadState, removed, runNo>>
  /\ UNCHANGED <<builderLevel, closeFailed, fileResult>>
  /\ MainFrame

\* RunE up to the call of CreateBackup: the preview prints and returns
RunPreviewOrBackup ==
  /\ mainPc = "run"
  /\ IF opts.preview
     THEN Exit("ok")
     ELSE mainPc' = "createBackup" /\ exitState' = exitState
  /\ UNCHANGED <<opts, sourceExists, fileState, fileOpen, writers, archiveErr,
                 backupResult, uploadState, removed, runNo>>
  /\ UNCHANGED <<builderLevel, closeFailed, fileResult>>
  /\ MainFrame

\* CreateBackup up to the call of createArchive: a missing source is an
\* error; a file already at the backup path is returned as the backup
CreateBackupStart ==
  /\ mainPc = "createBackup"
  /\ IF ~sourceExists
     THEN mainPc' = "backupReturned" /\ backupResult' = "err"
     ELSE IF fileState # "absent"
     THEN mainPc' = "backupReturned" /\ backupResult' = "existing"
     ELSE mainPc' = "createFile" /\ backupResult' = backupResult
  /\ builderLevel' = IF sourceExists /\ fileState = "absent"
                     THEN {ClampLevel(opts.compression)} ELSE builderLevel
  /\ UNCHANGED <<opts, sourceExists, fileState, fileOpen, writers, archiveErr,
                 uploadState, removed, exitState, runNo>>
  /\ UNCHANGED <<closeFailed, fileResult>>
  /\ MainFrame

\* the builder's os.Create: on failure it returns at once
ArchiveCreateFile ==
  /\ mainPc = "createFile"
  /\ \/ /\ fileState' = "partial"
        /\ fileOpen' = TRUE
        /\ mainPc' = "openWriters"
        /\ fileResult' = "running"
        /\ UNCHANGED <<backupResult>>
     \/ /\ mainPc' = "backupReturned"
        /\ backupResult' = "err"
        /\ UNCHANGED <<fileState, fileOpen, fileResult>>
  /\ UNCHANGED <<opts, sourceExists, writers, archiveErr, uploadState, removed,
                 exitState, runNo>>
  /\ UNCHANGED <<builderLevel, closeFailed>>
  /\ MainFrame

\* the compression writer and the archive writer on top of the file;
\* NewWriterLevel refuses a level it does not know, and the builder
\* returns that error with only the file to close
ArchiveOpenWriters ==
  /\ mainPc = "openWriters"
  /\ IF \A L \in builderLevel : LevelAccepted(L)
     THEN writers' = {"compress", "archive"} /\ mainPc' = "walk"
          /\ archiveErr' = archiveErr
     ELSE writers' = writers /\ mainPc' = "closeFile" /\ archiveErr' = TRUE
  /\ UNCHANGED <<opts, sourceExists, fileState, fileOpen, backupResult,
                 uploadState, removed, exitState, runNo>>
  /\ UNCHANGED <<builderLevel, closeFailed, fileResult>>
  /\ MainFrame

\* the walk writes the entries and returns nil or an error
ArchiveWalk ==
  /\ mainPc = "walk"
  /\ archiveErr' \in BOOLEAN
  /\ mainPc' = "closeArchive"
  /\ UNCHANGED <<opts, sourceExists, fileState, fileOpen, writers, backupResult,
                 uploadState, removed, exitState, runNo>>
  /\ UNCHANGED <<builderLevel, closeFailed, fileResult>>
  /\ MainFrame

\* the deferred calls, last registered first: archive writer,
\* compression writer, output file; each can fail
ArchiveCloseArchiveWriter ==
  /\ mainPc = "closeArchive"
  /\ writers' = writers \ {"archive"}
  /\ mainPc' = "closeCompress"
  /\ UNCHANGED <<opts, sourceExists, fileState, fileOpen, archiveErr, backupResult,
                 uploadState, removed, exitState, runNo>>
  /\ \/ closeFailed' = closeFailed
     \/ closeFailed' = closeFailed \cup {"archive"}
  /\ UNCHANGED <<builderLevel, fileResult>>
  /\ MainFrame

ArchiveCloseCompressor ==
  /\ mainPc = "closeCompress"
  /\ writers' = writers \ {"compress"}
  /\ mainPc' = "closeFile"
  /\ UNCHANGED <<opts, sourceExists, fileState, fileOpen, archiveErr, backupResult,
                 uploadState, removed, exitState, runNo>>
  /\ \/ closeFailed' = closeFailed
     \/ closeFailed' = closeFailed \cup {"compress"}
  /\ UNCHANGED <<builderLevel, fileResult>>
  /\ MainFrame

\* outFile.Close, then the builder's result reaches CreateBackup, which
\* returns the path or wraps the error; what the deferred closes
\* returned is dropped
ArchiveCloseFile ==
  /\ mainPc = "closeFile"
  /\ \/ closeFailed' = closeFailed
     \/ closeFailed' = closeFailed \cup {"file"}
  /\ fileOpen' = FALSE
  /\ fileState' = IF archiveErr \/ closeFailed' # {} THEN "partial" ELSE "complete"
  /\ backupResult' = IF archiveErr THEN "err" ELSE "created"
  /\ fileResult' = IF archiveErr THEN "err" ELSE "nil"
  /\ mainPc' = "backupReturned"
  /\ UNCHANGED <<opts, sourceExists, writers, archiveErr, uploadState, removed,
                 exitState, runNo>>
  /\ UNCHANGED builderLevel
  /\ MainFrame

\* a variant of RunE that goes on to the upload whatever CreateBackup returned
RunAfterBackupIgnoringError ==
  /\ mainPc = "backupReturned"
  /\ IF opts.backupOnly \/ opts.skipUpload
     THEN Exit("ok") /\ uploadState' = uploadState
     ELSE mainPc' = "upload" /\ uploadState' = "running" /\ exitState' = exitState
  /\ UNCHANGED <<opts, sourceExists, fileState, fileOpen, writers, archiveErr,
                 backupResult, removed, runNo>>
  /\ UNCHANGED <<builderLevel, closeFailed, fileResult>>
  /\ MainFrame

\* RunE after CreateBackup: an error is returned; otherwise backup-only
\* and skip-upload end the run, and the others start the upload
RunAfterBackup ==
  /\ mainPc = "backupReturned"
  /\ IF backupResult = "err"
     THEN Exit("err") /\ uploadState' = uploadState
     ELSE IF opts.backupOnly \/ opts.skipUpload
     THEN Exit("ok") /\ uploadState' = uploadState
     ELSE mainPc' = "upload" /\ uploadState' = "running" /\ exitState' = exitState
  /\ UNCHANGED <<opts, sourceExists, fileState, fileOpen, writers, archiveErr,
                 backupResult, removed, runNo>>
  /\ UNCHANGED <<builderLevel, closeFailed, fileResult>>
  /\ MainFrame

\* UploadToSSH / UploadToRclone returns: an error ends the run
UploadReturns ==
  /\ mainPc = "upload"
  /\ \/ uploadState' = "ok" /\ mainPc' = "cleanup" /\ exitState' = exitState
     \/ uploadState' = "failed" /\ Exit("err")
  /\ UNCHANGED <<opts, sourceExists, fileState, fileOpen, writers, archiveErr,
                 backupResult, removed, runNo>>
  /\ UNCHANGED <<builderLevel, closeFailed, fileResult>>
  /\ MainFrame

\* a variant of the cleanup that removes the file whatever keep-backup says
CleanupAlways ==
  /\ mainPc = "cleanup"
  /\ \/ fileState' = "absent" /\ removed' = TRUE /\ fileResult' = "none"
     \/ UNCHANGED <<fileState, removed, fileResult>>
  /\ Exit("ok")
  /\ UNCHANGED <<opts, sourceExists, fileOpen, writers, archiveErr, backupResult,
                 uploadState, runNo>>
  /\ UNCHANGED <<builderLevel, closeFailed>>
  /\ MainFrame

\* after the upload: os.Remove unless keep-backup; a failed removal is
\* logged only
Cleanup ==
  /\ mainPc = "cleanup"
  /\ IF opts.keepBackup
     THEN UNCHANGED <<fileState, removed, fileResult>>
     ELSE \/ fileState' = "absent" /\ removed' = TRUE /\ fileResult' = "none"
          \/ UNCHANGED <<fileState, removed, fileResult>>
  /\ Exit("ok")
  /\ UNCHANGED <<opts, sourceExists, fileOpen, writers, archiveErr, backupResult,
                 uploadState, runNo>>
  /\ UNCHANGED <<builderLevel, closeFailed>>
  /\ MainFrame

\* the process ends: of its state only the file at the backup path is left
ProcessExit ==
  /\ mainPc = "exit"
  /\ mainPc' = "ended"
  /\ opts' = [ previewFlag |-> FALSE, preview |-> FALSE, backupOnly |-> FALSE,
               skipUpload |-> FALSE,
               useSSH |-> FALSE, keepBackup |-> FALSE,
               destination |-> "", sshHost |-> "", compression |-> 6 ]
  /\ sourceExists' = TRUE
  /\ archiveErr' = FALSE
  /\ backupResult' = "none"
  /\ uploadState' = "none"
  /\ removed' = FALSE
  /\ exitState' = "none"
  /\ builderLevel' = {}
  /\ closeFailed' = {}
  /\ fileResult' = fileResult
  /\ UNCHANGED <<fileState, fileOpen, writers, runNo>>
  /\ MainFrame

\* the command is run again with the same backup path
NextRun ==
  /\ mainPc = "ended"
  /\ runNo < MaxRuns
  /\ runNo' = runNo + 1
  /\ opts' \in Options
  /\ sourceExists' \in BOOLEAN
  /\ mainPc' = "preRun"
  /\ UNCHANGED <<fileState, fileOpen, writers, archiveErr, backupResult, uploadState,
                 removed, exitState, builderLevel, closeFailed, fileResult>>
  /\ MainFrame

NextMain ==
  \/ PreRunE
  \/ RunPreviewOrBackup
  \/ CreateBackupStart
  \/ ArchiveCreateFile
  \/ ArchiveOpenWriters
  \/ ArchiveWalk
  \/ ArchiveCloseArchiveWriter
  \/ ArchiveCloseCompressor
  \/ ArchiveCloseFile
  \/ RunAfterBackup
  \/ UploadReturns
  \/ Cleanup
  \/ ProcessExit
  \/ NextRun

-----------------------------------------------------------------------------
(* Specifications *)

NextMatch == ApplyMatcher

InitMatch == MatchInit /\ WalkIdle /\ MainIdle /\ PoolIdle /\ UploadIdle /\ ProgressIdle
  /\ RcloneIdle

\* one exclusion check applied to one (pattern, path) input
SpecMatch == InitMatch /\ [][NextMatch]_vars

InitMatchList == MatchListInit /\ WalkIdle /\ MainIdle /\ PoolIdle /\ UploadIdle
  /\ ProgressIdle /\ RcloneIdle

\* one exclusion check with an exclude list that may hold a malformed pattern
SpecMatchList == InitMatchList /\ [][NextMatch]_vars

InitWalk == WalkInit /\ MatchIdle /\ MainIdle /\ PoolIdle /\ UploadIdle /\ ProgressIdle
  /\ RcloneIdle

\* one run of a sequential builder
SpecWalk == InitWalk /\ [][NextWalk]_vars

InitPool == PoolInit /\ MatchIdle /\ MainIdle /\ UploadIdle /\ ProgressIdle
  /\ RcloneIdle

\* one run of the worker-pool builder
SpecPool == InitPool /\ [][NextPool]_vars

InitUpload == UploadInit /\ MatchIdle /\ WalkIdle /\ MainIdle /\ PoolIdle /\ ProgressIdle
  /\ RcloneIdle

\* one SSH upload
SpecUpload == InitUpload /\ [][NextUpload]_vars

InitProgress ==
  ProgressInit /\ MatchIdle /\ WalkIdle /\ MainIdle /\ PoolIdle /\ UploadIdle
  /\ RcloneIdle

\* one upload's stream of Read calls on a progressReader
SpecProgress == InitProgress /\ [][NextProgress]_vars

InitRclone ==
  RcloneInit /\ MatchIdle /\ WalkIdle /\ MainIdle /\ PoolIdle /\ UploadIdle
  /\ ProgressIdle

\* one call of UploadToRclone
SpecRclone == InitRclone /\ [][NextRclone]_vars

InitMain == MainInit /\ MatchIdle /\ WalkIdle /\ PoolIdle /\ UploadIdle /\ ProgressIdle
  /\ RcloneIdle

\* runs of the command on one backup path
SpecMain == InitMain /\ [][NextMain]_vars

-----------------------------------------------------------------------------
(* Properties of the exclusion checks (SpecMatch) *)

\* the builder whose check it is runs on this platform
Dispatched(kind, goos) ==
  CASE kind = "matchPattern" -> goos \in {"linux", "darwin"}
    [] kind = "segmentLoop"  -> goos = "darwin"
    [] kind \in {"prefix", "isExcluded"} -> goos = "windows"

NormalizedSegments(path) == Split("./" \o path, "/")

\* C4: for the pattern "./**/node_modules" the check reports a path
\* excluded whenever some segment of the normalized path is
\* "node_modules", whatever its position in the path.
C4_AnySegmentExcluded ==
  ( /\ mDone
    /\ mKind \in {"matchPattern", "segmentLoop"}
    /\ Dispatched(mKind, mGoos)
    /\ mPattern = "./**/node_modules"
    /\ \E i \in DOMAIN NormalizedSegments(mPath) :
         NormalizedSegments(mPath)[i] = "node_modules" )
  => mResult

StripDot(s) == TrimPrefix(s, "./")

\* C5: for a prefix pattern (".cache", "./.cache", "./Downloads") the
\* check reports a path excluded whenever the path, leading "./" aside,
\* starts with the pattern, leading "./" aside.
C5_PrefixExcluded ==
  ( /\ mDone
    /\ mKind \in {"matchPattern", "prefix", "isExcluded"}
    /\ Dispatched(mKind, mGoos)
    /\ mPattern \in {".cache", "./.cache", "./Downloads"}
    /\ HasPrefix(StripDot(mPath), StripDot(mPattern)) )
  => mResult

ExtensionPatterns == {"./**/*.sock", "*.sock"}

\* the path ends with the extension, letter case aside on Windows
EndsWith(goos, path, ext) ==
  IF goos = "windows"
  THEN HasSuffix(ToLower(path), ToLower(ext))
  ELSE HasSuffix(path, ext)

\* C6: under matchPattern an extension pattern for ".sock" excludes a
\* path exactly when the path's final segment ends with ".sock", at any
\* depth, ignoring letter case on Windows only.
C6_ExtensionIff ==
  ( mDone /\ mKind = "matchPattern" /\ mPattern \in ExtensionPatterns )
  => ( mResult <=> EndsWith(mGoos, mPath, ".sock") )

\* C6 witness: a .sock file two directories down is excluded
C6_Witness ==
  /\ mDone /\ mKind = "matchPattern" /\ mGoos = "linux"
  /\ mPattern = "./**/*.sock" /\ mPath = "a/b/foo.sock"
  /\ mResult

-----------------------------------------------------------------------------
(* Properties of the sequential builders (SpecWalk) *)

Finished == walkState \in {"ok", "error"}

\* the source entry an archive entry was written for
PathOf(e) == CHOOSE p \in DOMAIN tree : RelPath(p) = e.name

\* number of archive entries written for source entry p
TimesWritten(p) == Cardinality({i \in DOMAIN archive : archive[i].name = RelPath(p)})

\* some directory above p matches an exclude pattern
UnderExcludedDir(p) ==
  \E d \in DOMAIN tree : tree[d].type = "dir" /\ IsUnder(p, d) /\ EntryExcluded(d)

\* p is excluded: by a pattern, or by lying inside an excluded directory
Omitted(p) == EntryExcluded(p) \/ UnderExcludedDir(p)

FaultAt(p) == \E f \in faults : f.path = p

\* p lies inside a directory the walk could not read
UnderFault(p) == \E f \in faults : f.kind = "access" /\ IsUnder(p, f.path)

\* C2: every regular file that was archived without an open or read
\* error has as entry content its own bytes, once, so that the entry is
\* as long as the file.
C2_ContentOnce ==
  \A i \in DOMAIN archive :
    ( archive[i].type = "file" /\ ~FaultAt(PathOf(archive[i])) )
    => archive[i].data = CopyData(PathOf(archive[i]), tree[PathOf(archive[i])].size)

\* C3: no entry inside a directory that matches an exclude pattern is
\* ever visited, opened or written; with "./**/node_modules" in force in
\* the Linux and macOS builders, a/node_modules/x.txt is not archived.
C3_Pruned ==
  /\ \A q \in Range(visited) \cup opened \cup {PathOf(archive[i]) : i \in DOMAIN archive} :
       ~UnderExcludedDir(q)
  /\ ( variant \in {"linux", "macos"} /\ "./**/node_modules" \in Range(excludePatterns) )
     => /\ "a/node_modules/x.txt" \notin Range(visited) \cup opened
        /\ TimesWritten("a/node_modules/x.txt") = 0

\* C3 witness: the Linux builder finished on a tree that holds
\* a/node_modules/x.txt, having visited and skipped a/node_modules
C3_Witness ==
  /\ variant = "linux" /\ walkState = "ok"
  /\ "a/node_modules/x.txt" \in DOMAIN tree
  /\ "a/node_modules" \in Range(visited)
  /\ "a/y.txt" \in Range(visited)

\* C7: in the tar builders, when exactly one regular file that is not
\* excluded fails to open or to be read, the run returns success and
\* every other entry that is not excluded is in the archive.
C7_OneFailureTolerated ==
  ( /\ Finished
    /\ variant \in {"linux", "macos"}
    /\ \E f \in faults : faults = {f} /\ f.kind \in {"open", "read"} )
  => /\ walkState = "ok"
     /\ \A q \in DOMAIN tree :
          (~Omitted(q) /\ ~FaultAt(q)) => TimesWritten(q) = 1

-----------------------------------------------------------------------------
(* Properties of the command (SpecMain) *)

\* C9: an upload has started only if CreateBackup returned success, and
\* then the output file and every writer on it are closed; after
\* CreateBackup returned an error no upload is started in that run.
C9_UploadAfterBackup ==
  /\ uploadState # "none"
     => backupResult \in {"created", "existing"} /\ ~fileOpen /\ writers = {}
  /\ backupResult = "err" => uploadState = "none"

\* C9 witness: the upload runs on an archive this run created
C9_Witness ==
  /\ uploadState = "running" /\ backupResult = "created" /\ fileState = "complete"

\* C10: the backup file is removed only in a run whose upload returned
\* success and that does not keep the backup; in a run that has a backup
\* and ends without a successful upload, or keeps the backup, the file is
\* still there at the end.
C10_RemoveOnlyAfterUpload ==
  /\ removed
     => /\ uploadState = "ok"
        /\ ~opts.keepBackup /\ ~opts.backupOnly /\ ~opts.skipUpload
  /\ ( /\ mainPc = "exit"
       /\ backupResult \in {"created", "existing"}
       /\ (uploadState # "ok" \/ opts.keepBackup) )
     => fileState # "absent"

\* C10 witness: the file was removed after a successful upload
C10_Witness ==
  /\ removed /\ fileState = "absent" /\ uploadState = "ok" /\ mainPc = "exit"

-----------------------------------------------------------------------------
(* Properties of the worker-pool builder (SpecPool) *)

\* C1: when a builder has returned success and no I/O error occurred,
\* every entry that no pattern excludes (and that lies in no excluded
\* directory) is in the archive exactly once, and every excluded entry
\* is in the archive zero times.
C1_EveryEntryOnce ==
  ( Finished /\ walkState = "ok" /\ faults = {} )
  => \A q \in DOMAIN tree :
       TimesWritten(q) = IF Omitted(q) THEN 0 ELSE 1

-----------------------------------------------------------------------------
(* Properties of the builder's result (SpecMain) *)

\* C11: when a deferred close of the archive output (archive writer,
\* compression writer or file) has returned an error, CreateBackup does
\* not return success for that run.
C11_CloseErrorReturned ==
  ( backupResult # "none" /\ closeFailed # {} ) => backupResult = "err"

\* C12: the level createArchive is called with is the -c value when that
\* is within 0..9 and 6 otherwise, and it is a level the compression
\* writer accepts, so that opening the writers does not fail on it.
C12_LevelClamped ==
  /\ builderLevel \in
       { {}, { IF opts.compression >= 0 /\ opts.compression <= 9
               THEN opts.compression ELSE 6 } }
  /\ mainPc = "openWriters" => \A L \in builderLevel : LevelAccepted(L)

\* C12 witness: a run with -c 10 built its archive with level 6
C12_Witness ==
  /\ opts.compression = 10 /\ builderLevel = {6} /\ backupResult = "created"

-----------------------------------------------------------------------------
(* Properties of the entry headers (SpecWalk) *)

\* C13: in the tar builders, the link name in the header of every
\* archived symbolic link is the target the link points to.
C13_LinkTarget ==
  \A i \in DOMAIN archive :
    ( IsTar(variant) /\ archive[i].type = "symlink" )
    => archive[i].link = tree[PathOf(archive[i])].target

-----------------------------------------------------------------------------
(* Properties of the SSH upload (SpecUpload) *)

\* the credential the priority order asks for: the key file when one is
\* configured, else the password when one is set, else the first usable
\* default key; << >> when there is none
ExpectedCredential ==
  IF uConfig.KeyFile # ""
  THEN IF uKeyFileOk THEN << "keyfile" >> ELSE << >>
  ELSE IF uConfig.Password # ""
  THEN << "password" >>
  ELSE firstDefaultKey(DefaultKeyPaths(uVariant), uDefaultKeys)

\* a step that opens a connection was attempted
ConnectionAttempted ==
  \E i \in DOMAIN uSteps : uSteps[i] \in {"connect", "sshMkdir", "scpCommand"}

\* C14: once a connection is attempted, the credential offered first is
\* the one the priority order asks for; when the order yields no usable
\* credential, no connection is attempted and the upload can only fail,
\* in its authentication block (or before it, when the local file cannot
\* be examined).
C14_CredentialPriority ==
  /\ ConnectionAttempted
     => /\ ExpectedCredential # << >>
        /\ uAuth # << >>
        /\ Head(uAuth) = Head(ExpectedCredential)
  /\ ExpectedCredential = << >> => uResult \in {"none", "stat", "auth"}

\* the place of a step in the order connect (1), create the remote
\* directory (2), create the remote file (3), stream the bytes (4); the
\* two commands of UploadToSSHBinary count as their last part; 0 for a
\* local step
Phase(k) ==
  CASE k = "connect" -> 1
    [] k \in {"mkdir", "sshMkdir"} -> 2
    [] k = "create" -> 3
    [] k \in {"stream", "scpCopy", "scpCommand"} -> 4
    [] OTHER -> 0

StepsInOrder ==
  \A i, j \in DOMAIN uSteps :
    ( i < j /\ Phase(uSteps[i]) > 0 /\ Phase(uSteps[j]) > 0 )
    => Phase(uSteps[i]) < Phase(uSteps[j])

\* the upload returned the error of the last step attempted, and only
\* a failed upload returns an error
FirstFailureReturned ==
  /\ uResult \notin {"none", "ok"}
     => uSteps # << >> /\ uSteps[Len(uSteps)] = uResult
  /\ uResult = "ok" => uPlan = << >>

\* C15: the remote steps are attempted in the order connect, create
\* directory, create file, stream; a failed step is the last one
\* attempted and its error is what the upload returns; and no step takes
\* a remote file away, so a failed copy leaves the file it began.
C15_StepsInOrder ==
  /\ [](StepsInOrder /\ FirstFailureReturned)
  /\ [][uRemote # "absent" => uRemote' # "absent"]_vars

\* C15 witness: the copy failed after the remote file was created; the
\* upload returned that error and the truncated file is still there
C15_Witness ==
  /\ uVariant = "original"
  /\ uResult = "stream" /\ uRemote = "partial"
  /\ uSteps[Len(uSteps)] = "stream"

\* the number of lines of one kind written so far
RECURSIVE LinesOfKind(_, _)
LinesOfKind(reports, kind) ==
  IF reports = << >> THEN 0
  ELSE (IF Head(reports).kind = kind THEN 1 ELSE 0) + LinesOfKind(Tail(reports), kind)

\* the sum of the byte counts of a sequence of <<n, err>> results
RECURSIVE SumOfN(_)
SumOfN(results) ==
  IF results = << >> THEN 0 ELSE Head(results)[1] + SumOfN(Tail(results))

\* C16: within one upload the byte figure of the progress reader's lines never
\* decreases from one line to the next, and when the copy has ended the figure
\* of the completion line is that of the number of bytes read from the source.
C16_ReportsMonotone ==
  /\ \A i, j \in DOMAIN pReports : i < j => pReports[i].shown <= pReports[j].shown
  /\ ( pState = "ok" /\ pReports # << >> /\ pReports[Len(pReports)].kind = "completed" )
       => pReports[Len(pReports)].shown = Shown(pOffset)

\* C16 witness: a four-byte file read in two calls five seconds apart: a
\* progress line for the first three bytes, then the completion line for four.
C16_Witness ==
  /\ pState = "ok"
  /\ pOffset = 4
  /\ Len(pReports) >= 2
  /\ pReports[1].kind = "progress" /\ pReports[1].shown = Shown(3)
  /\ pReports[Len(pReports)].kind = "completed"
  /\ pReports[Len(pReports)].shown = Shown(4)

\* C17: two progress lines are at least five seconds apart, completion is
\* never reported more than once, and a copy that reached the end of the file
\* reported it exactly once.
C17_OneCompletionLine ==
  /\ \A i, j \in DOMAIN pReports :
        ( i < j /\ pReports[i].kind = "progress" /\ pReports[j].kind = "progress" )
          => pReports[j].at - pReports[i].at >= ReportInterval
  /\ LinesOfKind(pReports, "completed") <= 1
  /\ pState = "ok" => LinesOfKind(pReports, "completed") = 1

\* C18: with an expected total of zero no line is written, and every Read
\* still returns what the underlying reader returned.
C18_ZeroTotalSilent ==
  pTotal = 0 => ( pReports = << >> /\ pReturns = pUnder )

\* C19: Read returns the underlying reader's (n, err), the bytes reaching
\* the destination are the bytes of the source in order, and transferred is the
\* sum of the n returned so far.
C19_ReadForwards ==
  /\ pReturns = pUnder
  /\ pDest = SubSeq(pSource, 1, pOffset)
  /\ pTransferred = SumOfN(pReturns)

\* C19 witness: a four-byte file copied to the end in three Read calls.
C19_Witness ==
  /\ pState = "ok"
  /\ pReturns = << <<3, "nil">>, <<1, "nil">>, <<0, "EOF">> >>
  /\ pTransferred = 4
  /\ pDest = pSource

\* C20: UploadToRclone never invokes the copy more than once; when it has
\* returned it has invoked it exactly once, it returned nil exactly when the
\* copy's status was 0 or 200, and an error exactly when it was another.
C20_RcloneResultIsCopyStatus ==
  /\ Len(rRequests) <= 1
  /\ rPc = "returned" =>
        /\ Len(rRequests) = 1
        /\ rResult = "ok" <=> rStatus[1] \in {0, 200}
        /\ rResult # "ok" <=> rStatus[1] \notin {0, 200}

\* C21: in a run started with --preview no archive is created, no upload is
\* performed and no file is deleted.
C21_PreviewDoesNothing ==
  opts.previewFlag =>
    /\ mainPc \in {"preRun", "run", "exit"}
    /\ backupResult = "none"
    /\ uploadState = "none"
    /\ removed = FALSE

\* C22: a malformed exclusion pattern raises no error, and the verdict on
\* the path is the verdict of the patterns that follow it.
C22_MalformedPatternSkipped ==
  ( mDone /\ BadPattern(mPattern) ) =>
    /\ ~mErr
    /\ mResult = Excluded(mKind, mGoos, FromSlash(mGoos, mPath), mRest)

\* entry i of the archive is ended: in a tar archive it holds as many bytes
\* as its header declared, and no worker is still copying into it
EntryEnded(i) ==
  /\ IsTar(variant) => TarWritten(archive[i]) = archive[i].size
  /\ \A w \in DOMAIN workers : ~( workers[w].pc = "copy" /\ workers[w].idx = i )

Discovered(p) ==
  /\ p \in Range(visited)
  /\ ~EntryExcluded(p)
  /\ ~\E f \in faults : f.path = p /\ f.kind \in {"access", "readlink"}

IndexOf(p) == CHOOSE i \in DOMAIN archive : archive[i].name = RelPath(p)

\* C24: every directory and symlink that the walk discovered and did not
\* exclude has its header in the archive as soon as the walk has passed it,
\* and these headers are in the order of discovery.
C24_DirsWrittenAtDiscovery ==
  /\ \A p \in DOMAIN tree :
        ( Discovered(p) /\ tree[p].type # "file" ) => TimesWritten(p) = 1
  /\ \A k, l \in DOMAIN visited :
        ( /\ k < l
          /\ tree[visited[k]].type # "file" /\ tree[visited[l]].type # "file"
          /\ TimesWritten(visited[k]) = 1 /\ TimesWritten(visited[l]) = 1 )
        => IndexOf(visited[k]) < IndexOf(visited[l])

\* worker w is inside addFileToZip or about to unlock
InEntry(w) == workers[w].pc \in {"header", "copy", "unlock"}

\* C25: at most one worker is inside the write of an entry, that worker
\* holds zipMutex, and the entry it is copying into is the last one of the
\* archive, so that no other header was written in between.
C25_OneWriterAtATime ==
  /\ \A w1, w2 \in Workers : ( InEntry(w1) /\ InEntry(w2) ) => w1 = w2
  /\ \A w \in Workers : InEntry(w) => zipMutex = w
  /\ \A w \in Workers : workers[w].pc = "copy" => workers[w].idx = Len(archive)

\* C25 witness: of two workers one is copying into its entry and the other
\* waits for the mutex with a file in hand.
C25_Witness ==
  /\ numWorkers = 2
  /\ \E w1, w2 \in Workers :
        /\ workers[w1].pc = "copy"
        /\ workers[w2].pc = "lock"
        /\ workers[w1].file # workers[w2].file
  /\ archive # << >>

\* the files the producer has sent to filesChan
Sent == { p \in DOMAIN tree : Discovered(p) /\ tree[p].type = "file" }

\* worker w has received a file and has not finished with it
Holding(w) == workers[w].pc \in {"lock", "header", "copy", "unlock", "send"}

\* C26: a file sent to filesChan is in the channel once or with one worker,
\* never both, and is written at most once; the builder has returned (and
\* with that closed the archive) only when filesChan is closed and empty and
\* every worker is done, each file sent having then been taken by a worker.
C26_CloseAfterDrain ==
  /\ \A i, j \in DOMAIN filesChan : filesChan[i] = filesChan[j] => i = j
  /\ \A i \in DOMAIN filesChan : \A w \in Workers :
        Holding(w) => workers[w].file # filesChan[i]
  /\ \A w1, w2 \in Workers :
        ( Holding(w1) /\ Holding(w2) /\ workers[w1].file = workers[w2].file ) => w1 = w2
  /\ \A i, j \in DOMAIN archive : archive[i].name = archive[j].name => i = j
  /\ walkState # "walking" =>
        /\ filesClosed /\ filesChan = << >>
        /\ \A w \in Workers : workers[w].pc = "done"
        /\ \A p \in Sent : TimesWritten(p) = 1 \/ Fault(p, "header") \in faults

\* C26 witness: two workers each took a file, both are done and the
\* builder has returned.
C26_Witness ==
  /\ numWorkers = 2
  /\ walkState = "ok"
  /\ workers[1].file # NoFile /\ workers[2].file # NoFile
  /\ workers[1].file # workers[2].file
  /\ TimesWritten(workers[1].file) = 1 /\ TimesWritten(workers[2].file) = 1

\* C28: a worker that has an error to send finds room in errorsChan.  The
\* channel is received from only after wg.Wait() has returned, that is
\* after every worker is done, so a worker that finds it full waits for
\* ever, and with it wg.Wait() and the builder.
C28_ErrorSendNeverBlocks ==
  \A w \in Workers : workers[w].pc = "send" => Len(errorsChan) < numWorkers

\* C27: when the upload has returned, with nil or with the error of any
\* step, nothing it opened is still open: connection, SFTP client, session,
\* local file and remote file handle are closed.
C27_AllClosedOnReturn ==
  /\ uResult # "none" => uOpen = {}
  /\ uOpen \subseteq {"conn", "sftp", "session", "local", "remote"}

\* C27 witness: the copy of UploadToSSHOriginal failed after the connection,
\* the SFTP client, the local file and the remote file were opened, and the
\* function returned with all of them closed.
C27_Witness ==
  /\ uVariant = "original"
  /\ uResult = "stream"
  /\ {"connect", "sftp", "openLocal", "create"} \subseteq Range(uSteps)
  /\ uOpen = {}

\* C29: across runs with the same backup path, the file CreateBackup
\* returns as the backup, and the file the upload step is given, was written
\* by an archive creation that returned success: never the partial file a
\* failed creation left behind.
C29_OnlySuccessfulArchiveUploaded ==
  /\ ( mainPc = "backupReturned" /\ backupResult \in {"created", "existing"} )
       => fileResult = "nil"
  /\ mainPc = "upload" => fileResult = "nil"

\* C30: a run that would upload and has no target (an empty destination
\* without --ssh, an empty host with --ssh) never gets past PreRunE: no
\* archive is created and no upload is attempted.
C30_MissingTargetRejected ==
  ( /\ mainPc \notin {"ended"}
    /\ ~opts.skipUpload /\ ~opts.backupOnly
    /\ IF opts.useSSH THEN opts.sshHost = "" ELSE opts.destination = "" )
  => /\ mainPc \in {"preRun", "exit"}
     /\ mainPc = "exit" => exitState = "err"
     /\ backupResult = "none"
     /\ builderLevel = {}
     /\ uploadState = "none"
     /\ ~fileOpen

\* C30 witness: a run with --ssh and no host was rejected by PreRunE
C30_Witness ==
  /\ mainPc = "exit" /\ exitState = "err"
  /\ opts.useSSH /\ opts.sshHost = "" /\ ~opts.skipUpload /\ ~opts.backupOnly
  /\ backupResult = "none" /\ uploadState = "none"

====
